---- MODULE Spec2Model ----
(***************************************************************************)
(* Model of src/ggpa/mcts_bot.py: the Monte Carlo tree (TreeNode) and the  *)
(* agent that drives it (MCTSAgent.choose_card).                           *)
(*                                                                         *)
(* The game (BattleState, the actions) is a collaborator outside the file: *)
(* it is modelled as the most general finite game the interface allows:    *)
(* a state shows a list of legal actions, an ended flag and a score, and   *)
(* advancing it by an action leads to any state one move deeper.           *)
(***************************************************************************)
EXTENDS Integers, Sequences, FiniteSets

VARIABLES
    battle,      \* the actual state choose_card is asked about
    iterations,  \* MCTSAgent.iterations
    param,       \* MCTSAgent.param
    pc,          \* where the driver stands: "idle", "loop", "done"; "tree"; "built"
    it,          \* the loop counter of choose_card: iterations completed
    nodes,       \* the tree: nodes[1] is the root t; <<>> before t is constructed
    best_action, \* what get_best returned (NoAction for None)
    ret,         \* what choose_card returned (NoRet before, or when it raised)
    raised,      \* an exception left the call
    last,        \* history: what the last tree operation did
    started,     \* history: started[n] = rollouts that started at node n
    dead,        \* history: step calls on the root that ran no rollout
    given        \* history: the state objects handed to the tree, in call order

vars ==
    <<battle, iterations, param, pc, it, nodes, best_action, ret, raised, last,
      started, dead, given>>

\* ------------------------------------------------------------------ bounds
\* Largest iteration budget of the agent (MCTSAgent.iterations).
MaxIter == 3
\* Every playout ends within MaxDepth moves of the actual state.
MaxDepth == 2
\* Largest visits / number of results of a hand-built child (SpecBest).
MaxStat == 2

\* ------------------------------------------------------- the game (external)
\* An action instance: id is the object's identity, key is action.key().
Act(i, k) == [id |-> i, key |-> k]
\* "no action": None in get_best's result, action=None of the root.
NoAction == Act(0, 0)
\* Two instances with the same key, and two more keys.
ActA == Act(1, 1)
ActA2 == Act(2, 1)
ActB == Act(3, 2)
ActC == Act(4, 3)
\* The lists state.get_actions() may return.
ActLists ==
    { <<>>, <<ActA>>, <<ActA, ActB>>, <<ActB, ActA, ActA2>>,
      <<ActC, ActB, ActA>> }
\* The values state.score() may return.
Scores == {-1, 1}

\* The game states: d counts the moves made since the actual state. The game is
\* over after MaxDepth moves. The code reads the score of a state only where a
\* playout stops (ended, or no action left), so the other states carry one
\* score; an ended state offers no action, or still offers <<ActA, ActB>>.
StatePool ==
    { s \in [d : 0..MaxDepth, acts : ActLists, ended : BOOLEAN, score : Scores] :
        /\ s.d = MaxDepth => s.acts = <<>>
        /\ (~s.ended /\ s.acts # <<>>) => s.score = 1
        /\ s.ended => s.acts \in { <<>>, <<ActA, ActB>> } }

\* state.step(action) / state.apply_action(action): the state advances in
\* place, resolving its randomness: any state one move deeper may result.
Successors(s, a) == { t \in StatePool : t.d = s.d + 1 }

\* battle_state.copy_undeterministic(): an independent copy of the state; its
\* fresh randomness is what Successors resolves.
copy_undeterministic(s) == { s }

\* action.to_action(battle_state): the engine's PlayCard / EndAgentTurn value.
to_action(a, s) == [engine |-> a.id]
\* "no value": choose_card has not returned (or raised).
NoRet == [engine |-> 0]

\* GGPA.get_choose_card_options: the externally enumerated legal options.
get_choose_card_options(s) == [j \in 1..Len(s.acts) |-> to_action(s.acts[j], s)]

\* ------------------------------------------------------------- helpers
Range(q) == { q[j] : j \in 1..Len(q) }

RECURSIVE Sum(_)
\* sum(results)
Sum(q) == IF q = <<>> THEN 0 ELSE Head(q) + Sum(Tail(q))

\* ------------------------------------------------------------- TreeNode
\* __init__ without "self.parent = parent".
TreeNodeNoParent(p, par, a) ==
    [param |-> p, parent |-> 0, action |-> a,
     children |-> <<>>, results |-> <<>>, visits |-> 0]

\* TreeNode.__init__: a node without children, results or visits.
TreeNode(p, par, a) ==
    [param |-> p, parent |-> par, action |-> a,
     children |-> <<>>, results |-> <<>>, visits |-> 0]

\* key in self.children
HasKey(kids, k) == \E j \in 1..Len(kids) : kids[j].key = k

\* self.children.get(action): the action object is looked up, not its key, and
\* no action object is a key of the dict.
GetByAction(kids, k) == 0

\* self.children.get(key): the child's index in the tree, 0 for None.
Get(kids, k) ==
    IF HasKey(kids, k)
    THEN (CHOOSE e \in Range(kids) : e.key = k).id
    ELSE 0

\* self.children = {key: child}: the dict is replaced, not extended.
SetItemAlone(kids, k, c) == << [key |-> k, id |-> c] >>

\* self.children[key] = child: a dict keeps one entry per key, at the place
\* where the key was first inserted.
SetItem(kids, k, c) ==
    IF HasKey(kids, k)
    THEN [j \in 1..Len(kids) |-> IF kids[j].key = k THEN [key |-> k, id |-> c] ELSE kids[j]]
    ELSE Append(kids, [key |-> k, id |-> c])

\* Record without "self.visits += 1".
RecordNoVisit(node, r) ==
    [node EXCEPT !.results = Append(@, r)]

\* backpropagate's update of one node: visits += 1; results.append(result)
Record(node, r) ==
    [node EXCEPT !.visits = @ + 1, !.results = Append(@, r)]

\* backpropagate that records the result on every node of the tree.
backpropagateAll(T, n, r) == [m \in 1..Len(T) |-> Record(T[m], r)]

\* backpropagate without "if self.parent: self.parent.backpropagate(result)".
backpropagateHere(T, n, r) == [T EXCEPT ![n] = Record(@, r)]

RECURSIVE backpropagate(_, _, _)
\* TreeNode.backpropagate: the tree after the result went up from n to the root.
backpropagate(T, n, r) ==
    LET T1 == [T EXCEPT ![n] = Record(@, r)]
    IN  IF T[n].parent # 0 THEN backpropagate(T1, T[n].parent, r) ELSE T1

RECURSIVE Playout(_, _)
\* The loop of rollout as "while True": state.ended() is not read.
PlayoutNoEndedTest(s, m) ==
    IF s.acts = <<>>
    THEN { [score |-> s.score, moves |-> m] }
    ELSE UNION { UNION { Playout(t, m + 1) : t \in Successors(s, s.acts[j]) } :
                 j \in 1..Len(s.acts) }

\* The while loop of rollout from state s, m moves made so far: the
\* (state.score(), moves made) pairs it may end with.
Playout(s, m) ==
    IF s.ended \/ s.acts = <<>>
    THEN { [score |-> s.score, moves |-> m] }
    ELSE UNION { UNION { Playout(t, m + 1) : t \in Successors(s, s.acts[j]) } :
                 j \in 1..Len(s.acts) }

\* Playout, tabulated once per state.
PlayoutEnds == [s \in StatePool |-> Playout(s, 0)]

\* What one tree operation did: the tree it left, the (node, actions seen)
\* pairs of its descent, the node expand was called on and the action it
\* chose, the node whose rollout ran with its result and number of moves,
\* and whether it raised.
Outcome(T, p) ==
    [nodes |-> T, path |-> p, exp |-> 0, chosen |-> NoAction,
     rolled |-> 0, result |-> 0, moves |-> 0, raised |-> FALSE]

\* rollout without "self.backpropagate(state.score())".
rolloutNoBackpropagate(T, n, s, p) ==
    { [Outcome(T, p) EXCEPT !.rolled = n, !.result = e.score, !.moves = e.moves] :
      e \in PlayoutEnds[s] }

\* TreeNode.rollout: play to the end, backpropagate the final score.
rollout(T, n, s, p) ==
    { [Outcome(backpropagate(T, n, e.score), p) EXCEPT
          !.rolled = n, !.result = e.score, !.moves = e.moves] :
      e \in PlayoutEnds[s] }

\* expand without "child.rollout(state)": the child is stored and left unvisited.
expandNoRollout(T, n, s, cand, p) ==
    { [Outcome(Append([T EXCEPT ![n].children = SetItem(@, cand[j].key, Len(T) + 1)],
                      TreeNode(T[n].param, n, cand[j])), p)
          EXCEPT !.exp = n, !.chosen = cand[j]] : j \in 1..Len(cand) }

\* TreeNode.expand: a random candidate, the state advanced by it, a new child
\* stored under its key, and the rollout from the child.
expand(T, n, s, cand, p) ==
    UNION { UNION {
        LET c  == Len(T) + 1
            T1 == Append([T EXCEPT ![n].children = SetItem(@, cand[j].key, c)],
                         TreeNode(T[n].param, n, cand[j]))
        IN  { [o EXCEPT !.exp = n, !.chosen = cand[j]] : o \in rollout(T1, c, t, p) } :
        t \in Successors(s, cand[j]) } : j \in 1..Len(cand) }

\* unexplored without the filter on the keys: every action is a candidate.
UnexploredAll(kids, acts) == acts

\* [a for a in actions if a.key() not in self.children]
Unexplored(kids, acts) == SelectSeq(acts, LAMBDA a : ~HasKey(kids, a.key))

\* A rollout from the node where the state offers no action.
AtDeadEndRollout(T, n, s, q) == rollout(T, n, s, q)

\* actions = state.get_actions(); if not actions: return
AtDeadEnd(T, n, s, q) == { Outcome(T, q) }

RECURSIVE step(_, _, _, _)
\* TreeNode.step on node n with state s; p is the descent so far.
step(T, n, s, p) ==
    LET q  == Append(p, [node |-> n, acts |-> s.acts])
        un == Unexplored(T[n].children, s.acts)
    IN  IF s.acts = <<>> THEN AtDeadEnd(T, n, s, q)
        ELSE IF un # <<>> THEN expand(T, n, s, un, q)
        ELSE UNION { UNION {
                 LET c == Get(T[n].children, s.acts[j].key)
                 IN  IF c # 0 THEN step(T, c, t, q) ELSE { Outcome(T, q) } :
                 t \in Successors(s, s.acts[j]) } : j \in 1..Len(s.acts) }

\* sum(results) / len(results) if results else 0, as the fraction <<num, den>>.
Mean(node) ==
    IF node.results = <<>> THEN <<0, 1>> ELSE <<Sum(node.results), Len(node.results)>>

\* x > y and x >= y for fractions with positive denominators.
FracGT(x, y) == x[1] * y[2] > y[1] * x[2]
FracGE(x, y) == x[1] * y[2] >= y[1] * x[2]

\* The keys max(self.children.items(), key=UCB) may return at node n: the
\* first entry with the largest value. The value is the mean plus
\* param * sqrt(log(len(self.results) + 1) / (1 + len(child.results))): with
\* param = 0 or no result at n the second term is 0; otherwise it is positive
\* and falls with the child's number of results, and every child that no
\* other child beats on both terms is kept as a possible maximum.
UcbChoices(T, n) ==
    LET kids == T[n].children
        flat == T[n].param = 0 \/ T[n].results = <<>>
        m(j) == Mean(T[kids[j].id])
        l(j) == Len(T[kids[j].id].results)
        Beats(b, c) ==
            IF flat
            THEN FracGT(m(b), m(c)) \/ (FracGE(m(b), m(c)) /\ b < c)
            ELSE /\ FracGE(m(b), m(c))
                 /\ l(b) <= l(c)
                 /\ (FracGT(m(b), m(c)) \/ l(b) < l(c) \/ b < c)
    IN  { kids[c].key : c \in { c \in 1..Len(kids) :
                                 ~\E b \in 1..Len(kids) : b # c /\ Beats(b, c) } }

RECURSIVE select(_, _, _, _)
\* TreeNode.select on node n with state s; p is the descent so far.
select(T, n, s, p) ==
    LET q == Append(p, [node |-> n, acts |-> s.acts])
    IN  IF Len(T[n].children) < Len(s.acts) THEN expand(T, n, s, s.acts, q)
        ELSE IF T[n].children = <<>>
        THEN { [Outcome(T, q) EXCEPT !.raised = TRUE] }      \* max() of nothing
        ELSE UNION {
            LET c    == Get(T[n].children, k)
                next == { t \in StatePool : t.d = s.d + 1 }  \* apply_action(k)
                legal == \E a \in Range(s.acts) : a.key = k
            IN  UNION { select(T, c, t, q) : t \in next }
                \cup (IF legal /\ next # {} THEN {}
                      ELSE { [Outcome(T, q) EXCEPT !.raised = TRUE] }) :
            k \in UcbChoices(T, n) }

\* The avg of the fraction sum(child.results) / child.visits.
Avg(node) == << Sum(node.results), node.visits >>

\* Improves with "avg >= best_avg".
ImprovesOrTies(T, c, best) ==
    /\ T[c].visits > 0
    /\ (best = 0 \/ FracGE(Avg(T[c]), Avg(T[best])))

\* if child.visits > 0: ... if avg > best_avg: child c replaces best, which is
\* 0 while best is None and best_avg is -inf.
Improves(T, c, best) ==
    /\ T[c].visits > 0
    /\ (best = 0 \/ FracGT(Avg(T[c]), Avg(T[best])))

RECURSIVE BestScan(_, _, _, _)
\* The loop of get_best over children.values() from entry j on: the index of
\* the best child.
BestScan(T, kids, j, best) ==
    IF j > Len(kids) THEN best
    ELSE BestScan(T, kids, j + 1, IF Improves(T, kids[j].id, best) THEN kids[j].id ELSE best)

\* get_best without the fallback on a tree without children.
get_bestNoFallback(T, n, s) ==
    LET best == BestScan(T, T[n].children, 1, 0)
    IN  { IF best # 0 THEN T[best].action ELSE NoAction }

\* TreeNode.get_best on node n with state s: the actions it may return.
get_best(T, n, s) ==
    IF T[n].children = <<>>
    THEN (IF s.acts # <<>> THEN Range(s.acts) ELSE { NoAction })
    ELSE LET best == BestScan(T, T[n].children, 1, 0)
         IN  { IF best # 0 THEN T[best].action ELSE NoAction }

\* ------------------------------------------------------------- MCTSAgent
\* The values of the -p option: 0, and 1 for any positive value.
Params == {0, 1}

\* The states choose_card may be asked about.
Roots == { s \in StatePool : s.d = 0 /\ ~s.ended }

\* The history record of an operation, from its outcome.
Did(op, o) ==
    [op |-> op, path |-> o.path, exp |-> o.exp, chosen |-> o.chosen,
     rolled |-> o.rolled, result |-> o.result, moves |-> o.moves, raised |-> o.raised]
Nothing == Did("none", Outcome(<<>>, <<>>))

\* started, after an operation with outcome o.
Count(o) ==
    [n \in 1..Len(o.nodes) |->
        (IF n <= Len(started) THEN started[n] ELSE 0) + (IF o.rolled = n THEN 1 ELSE 0)]

\* choose_card without the fast path: the search runs on every state.
FastPathNever(acts) == FALSE

\* if len(actions) == 1: the fast path of choose_card.
FastPath(acts) == Len(acts) = 1

InitAgent ==
    /\ battle \in Roots
    /\ iterations \in 0..MaxIter
    /\ it = 0
    /\ best_action = NoAction
    /\ ret = NoRet
    /\ raised = FALSE
    /\ last = Nothing
    /\ dead = 0
    /\ given = <<>>

\* The agent as constructed with a positive -p (default: 0.5); step and
\* get_best never read it.
Init ==
    /\ InitAgent
    /\ param = 1
    /\ pc = "idle"
    /\ nodes = <<>>
    /\ started = <<>>

\* for i in range(self.iterations + 1): one iteration too many.
InRangePlusOne(i, n) == i <= n

\* for i in range(self.iterations): the loop runs while i < iterations.
InRange(i, n) == i < n

\* The object battle_state refers to: the actual state of the game.
Actual == 0
\* The object the k-th call of copy_undeterministic returns: a new one.
NewSnapshot(k) == k

\* t.step(battle_state): the loop without the snapshot.
SampleActual(k) == Actual

\* The object handed to t.step in iteration k: sample_state, the snapshot
\* taken in that iteration.
Sample(k) == NewSnapshot(k)

\* State moves made by one tree operation: one per edge of the descent, one
\* in expand, and those of the playout.
Moves(o) == (IF o.path = <<>> THEN 0 ELSE Len(o.path) - 1)
            + (IF o.exp # 0 THEN 1 ELSE 0) + o.moves

\* The values the object holding s may have after the operation ran on it.
Advanced(s, o) ==
    IF Moves(o) = 0 THEN { s } ELSE { t \in StatePool : t.d = s.d + Moves(o) }

\* choose_card, up to the loop: the fast path, or t = TreeNode(self.param).
ChooseCard ==
    /\ pc = "idle"
    /\ IF FastPath(battle.acts)
       THEN /\ ret' = to_action(battle.acts[1], battle)
            /\ pc' = "done"
            /\ UNCHANGED <<nodes, started>>
       ELSE /\ nodes' = << TreeNode(param, 0, NoAction) >>
            /\ started' = << 0 >>
            /\ pc' = "loop"
            /\ UNCHANGED ret
    /\ UNCHANGED <<battle, iterations, param, it, best_action, raised, last, dead, given>>

\* One iteration of the loop: a snapshot, and t.step on it. step advances the
\* object it is handed, so the actual state moves only if that object is it.
Iterate ==
    /\ pc = "loop"
    /\ InRange(it, iterations)
    /\ \E sample \in copy_undeterministic(battle) :
         \E o \in step(nodes, 1, sample, <<>>) :
            /\ nodes' = o.nodes
            /\ last' = Did("step", o)
            /\ started' = Count(o)
            /\ dead' = IF o.rolled = 0 THEN dead + 1 ELSE dead
            /\ battle' \in IF Sample(it + 1) = Actual
                           THEN Advanced(battle, o)
                           ELSE { battle }
    /\ given' = Append(given, Sample(it + 1))
    /\ it' = it + 1
    /\ UNCHANGED <<iterations, param, pc, best_action, ret, raised>>

\* After the loop: get_best on the actual state, the fallback, to_action.
Finish ==
    /\ pc = "loop"
    /\ ~InRange(it, iterations)
    /\ \E b \in get_best(nodes, 1, battle) :
         /\ best_action' = b
         /\ IF b = NoAction
            THEN LET options == get_choose_card_options(battle)
                 IN  IF options = <<>>
                     THEN raised' = TRUE /\ UNCHANGED ret     \* random.choice([])
                     ELSE ret' \in Range(options) /\ UNCHANGED raised
            ELSE ret' = to_action(b, battle) /\ UNCHANGED raised
    /\ pc' = "done"
    /\ last' = [Nothing EXCEPT !.op = "get_best"]
    /\ given' = Append(given, Actual)
    /\ UNCHANGED <<battle, iterations, param, it, nodes, started, dead>>

Next == ChooseCard \/ Iterate \/ Finish

\* One call of MCTSAgent.choose_card.
Spec == Init /\ [][Next]_vars

\* ------------------------------------------------- the tree driven directly
\* A fresh tree, as a caller of TreeNode builds it, for step and select.
InitTree ==
    /\ InitAgent
    /\ param \in Params
    /\ pc = "tree"
    /\ nodes = << TreeNode(param, 0, NoAction) >>
    /\ started = << 0 >>

\* t.step(snapshot), called on the root.
CallStep ==
    /\ pc = "tree"
    /\ it < iterations
    /\ ~raised
    /\ \E sample \in copy_undeterministic(battle) :
         \E o \in step(nodes, 1, sample, <<>>) :
            /\ nodes' = o.nodes
            /\ last' = Did("step", o)
            /\ started' = Count(o)
            /\ dead' = IF o.rolled = 0 THEN dead + 1 ELSE dead
    /\ it' = it + 1
    /\ UNCHANGED <<battle, iterations, param, pc, best_action, ret, raised, given>>

\* t.select(snapshot), called on the root.
CallSelect ==
    /\ pc = "tree"
    /\ it < iterations
    /\ ~raised
    /\ \E sample \in copy_undeterministic(battle) :
         \E o \in select(nodes, 1, sample, <<>>) :
            /\ nodes' = o.nodes
            /\ last' = Did("select", o)
            /\ started' = Count(o)
            /\ raised' = o.raised
    /\ it' = it + 1
    /\ UNCHANGED <<battle, iterations, param, pc, best_action, ret, dead, given>>

NextTree == CallStep \/ CallSelect

\* Any sequence of step and select calls on the root of one tree.
SpecTree == InitTree /\ [][NextTree]_vars


\* ------------------------------------------ rollout and backpropagate called
\* The states a caller holds: ended or not, with at most two legal actions.
CallStates == { s \in StatePool : s.d = 0 /\ Len(s.acts) <= 2 }

\* A fresh root and the state its caller holds.
InitCalls ==
    /\ battle \in CallStates
    /\ iterations \in 0..MaxIter
    /\ param = 1
    /\ pc = "tree"
    /\ it = 0
    /\ nodes = << TreeNode(param, 0, NoAction) >>
    /\ best_action = NoAction
    /\ ret = NoRet
    /\ raised = FALSE
    /\ last = Nothing
    /\ started = << 0 >>
    /\ dead = 0
    /\ given = <<>>

\* node.rollout(state), called on any node of the tree with the caller's state.
CallRollout ==
    /\ pc = "tree"
    /\ it < iterations
    /\ \E n \in 1..Len(nodes) :
         \E o \in rollout(nodes, n, battle, << [node |-> n, acts |-> battle.acts] >>) :
            /\ nodes' = o.nodes
            /\ last' = Did("rollout", o)
            /\ started' = Count(o)
    /\ it' = it + 1
    /\ pc' = "called"
    /\ UNCHANGED <<battle, iterations, param, best_action, ret, raised, dead, given>>

\* node.backpropagate(result), called on any node of the tree.
CallBackpropagate ==
    /\ pc = "tree"
    /\ it < iterations
    /\ \E n \in 1..Len(nodes) : \E r \in Scores :
         LET T == backpropagate(nodes, n, r)
         IN  /\ nodes' = T
             /\ last' = Did("backpropagate",
                            [Outcome(T, << [node |-> n, acts |-> battle.acts] >>)
                                EXCEPT !.result = r])
    /\ it' = it + 1
    /\ pc' = "called"
    /\ UNCHANGED <<battle, iterations, param, best_action, ret, raised, started, dead, given>>

NextCalls == CallStep \/ CallRollout \/ CallBackpropagate

\* Step calls on the root, then one direct call of rollout or backpropagate.
SpecCalls == InitCalls /\ [][NextCalls]_vars

\* --------------------------------------------------- get_best on any tree
\* The sequences of at most MaxStat results.
ResultLists == UNION { [1..k -> Scores] : k \in 0..MaxStat }

\* A root with one child per action of acts, in that order, child j holding
\* the results stats[j].
Built(acts, stats) ==
    << [TreeNode(1, 0, NoAction) EXCEPT
           !.children = [j \in 1..Len(acts) |-> [key |-> acts[j].key, id |-> j + 1]]] >>
    \o [j \in 1..Len(acts) |->
           [TreeNode(1, 1, acts[j]) EXCEPT
               !.results = stats[j], !.visits = Len(stats[j])]]

\* A tree built by hand: the children may have no visit.
InitBest ==
    /\ InitAgent
    /\ param = 1
    /\ pc = "built"
    /\ battle.acts = <<ActC, ActB, ActA>>
    /\ \E k \in 1..Len(battle.acts) :
         \E stats \in [1..k -> ResultLists] :
            /\ nodes = Built(SubSeq(battle.acts, 1, k), stats)
            /\ started = [n \in 1..(k + 1) |-> 0]

\* t.get_best(state)
CallGetBest ==
    /\ pc = "built"
    /\ best_action' \in get_best(nodes, 1, battle)
    /\ pc' = "done"
    /\ last' = [Nothing EXCEPT !.op = "get_best"]
    /\ UNCHANGED <<battle, iterations, param, it, nodes, ret, raised, started, dead, given>>

\* get_best called on a tree built by hand.
SpecBest == InitBest /\ [][CallGetBest]_vars

\* ================================================================ claims
\* The tree exists: choose_card went past the fast path.
HasTree == nodes # <<>>

\* The state the last step call saw at the node its descent ended on.
LastSeen == last.path[Len(last.path)]

\* C1, as claimed: after N iterations of step on the root, each on a snapshot
\* of a state with at least one legal action in a game whose playouts all
\* end, the root's visits equals N.
C1_RootVisitsEqualIterations ==
    (HasTree /\ battle.acts # <<>>) => nodes[1].visits = it

\* C1, amended: the root's visits equals the number of iterations whose
\* descent ended in an expansion (one rollout each, backpropagated once to the
\* root); an iteration whose descent reached a node where the state offers no
\* legal action ran no rollout, so visits = N - (those iterations) <= N.
C1_RootVisitsCountRollouts ==
    (HasTree /\ battle.acts # <<>>) =>
        /\ nodes[1].visits + dead = it
        /\ nodes[1].visits <= it
        /\ last.op = "step" =>
             /\ (last.rolled = 0) = (LastSeen.acts = <<>>)
             /\ last.rolled # 0 =>
                  /\ last.exp = LastSeen.node
                  /\ nodes[1].results[Len(nodes[1].results)] = last.result

\* C1, witness: three iterations on a state with actions, of which one ran no
\* rollout and two did.
C1_Witness ==
    /\ HasTree /\ battle.acts # <<>>
    /\ it = 3 /\ dead = 1 /\ nodes[1].visits = 2
    /\ last.op = "step" /\ last.rolled = 0

RECURSIVE Under(_, _, _)
\* Node m is node n or a descendant of it.
Under(T, m, n) == m = n \/ (T[m].parent # 0 /\ Under(T, T[m].parent, n))

RECURSIVE Total(_, _)
\* The sum of f over the set S of its indices.
Total(f, S) ==
    IF S = {} THEN 0
    ELSE LET x == CHOOSE x \in S : TRUE IN f[x] + Total(f, S \ {x})

C3_ChooseCardNeverRaises ==
    /\ ~raised
    /\ pc = "done" => ret # NoRet

\* C4: on a node with children, get_best returns the action of the first
\* child, in iteration order, whose mean sum(results)/visits is the largest
\* among the children with visits > 0, never a child without visits, and None
\* when no child has a visit.
C4_GetBestPicksFirstMaxMean ==
    pc = "done" =>
        LET kids == nodes[1].children
            seen == { j \in 1..Len(kids) : nodes[kids[j].id].visits > 0 }
            avg(j) == Avg(nodes[kids[j].id])
        IN  /\ kids # <<>>
            /\ IF seen = {}
               THEN best_action = NoAction
               ELSE \E j \in seen :
                      /\ best_action = nodes[kids[j].id].action
                      /\ \A m \in seen : FracGE(avg(j), avg(m))
                      /\ \A m \in seen : (m < j) => FracGT(avg(j), avg(m))

\* C4, witness: the first child has no visit, the next two tie on the largest
\* mean, and the second child's action is returned.
C4_Witness ==
    /\ pc = "done"
    /\ Len(nodes[1].children) = 3
    /\ nodes[2].visits = 0
    /\ nodes[3].results = <<1, -1>>
    /\ nodes[4].results = <<-1, 1>>
    /\ best_action = nodes[3].action

\* C5: get_best on a node without children returns one of the legal actions
\* of the state it is given, None when the state has none, and leaves the
\* tree as it was.
C5_GetBestFallback ==
    [][ (pc = "loop" /\ pc' = "done" /\ nodes[1].children = <<>>) =>
            /\ nodes' = nodes
            /\ IF battle.acts # <<>>
               THEN best_action' \in Range(battle.acts)
               ELSE best_action' = NoAction ]_vars

\* C5, witness: get_best has returned the second action of a state with two
\* actions, on a tree that has no child.
C5_Witness ==
    /\ pc = "done"
    /\ HasTree /\ nodes[1].children = <<>>
    /\ Len(battle.acts) >= 2
    /\ best_action = battle.acts[2]

\* The keys of the actions of a list, and of the entries of children.
KeysOf(acts) == { a.key : a \in Range(acts) }
ChildKeys(kids) == { e.key : e \in Range(kids) }

\* The node that the entries kids hold under key k, 0 if none.
ChildAt(kids, k) ==
    IF k \in ChildKeys(kids) THEN (CHOOSE e \in Range(kids) : e.key = k).id ELSE 0

\* A step call on the root has just run (in this step of the behaviour).
StepRan == it' = it + 1 /\ last'.op = "step"

C7_KeysCollapse ==
    [][ StepRan =>
          /\ \A n \in 1..Len(nodes') :
                LET kids == nodes'[n].children
                IN  \A a, b \in 1..Len(kids) : kids[a].key = kids[b].key => a = b
          /\ ChildKeys(nodes'[1].children) \subseteq KeysOf(battle.acts)
          /\ Len(nodes'[1].children) <= Cardinality(KeysOf(battle.acts))
          /\ \A n \in 1..Len(nodes) :
                IF last'.exp = n
                THEN /\ last'.chosen \in Range(last'.path[Len(last'.path)].acts)
                     /\ last'.chosen.key \notin ChildKeys(nodes[n].children)
                     /\ nodes'[n].children =
                           Append(nodes[n].children,
                                  [key |-> last'.chosen.key, id |-> Len(nodes) + 1])
                ELSE nodes'[n].children = nodes[n].children ]_vars

\* C7, witness: the root was offered three actions, two of them with one key,
\* and after three step calls holds two children.
C7_Witness ==
    /\ HasTree
    /\ battle.acts = <<ActB, ActA, ActA2>>
    /\ it = 3
    /\ Len(nodes[1].children) = 2

\* C8: on a root whose state offers k >= 2 actions with pairwise distinct
\* keys, after j <= k step calls on a fresh tree the root has exactly j
\* children, under distinct keys of the offered actions, each with visits = 1;
\* after k calls there is one child per action key.
C8_OneChildPerIteration ==
    LET k    == Len(battle.acts)
        kids == nodes[1].children
    IN  (HasTree /\ k >= 2 /\ Cardinality(KeysOf(battle.acts)) = k /\ it <= k) =>
            /\ Len(kids) = it
            /\ Cardinality(ChildKeys(kids)) = it
            /\ ChildKeys(kids) \subseteq KeysOf(battle.acts)
            /\ \A j \in 1..Len(kids) :
                  /\ nodes[kids[j].id].visits = 1
                  /\ nodes[kids[j].id].action.key = kids[j].key
            /\ it = k => ChildKeys(kids) = KeysOf(battle.acts)

\* C8, witness: three actions with three keys, three step calls, three
\* children.
C8_Witness ==
    /\ HasTree
    /\ battle.acts = <<ActC, ActB, ActA>>
    /\ it = 3
    /\ Len(nodes[1].children) = 3

\* C9: on a state with exactly one legal action choose_card returns the
\* translation of that action; no tree is constructed and no step is run,
\* whatever the iteration budget.
C9_SingleActionShortCircuit ==
    (pc = "done" /\ Len(battle.acts) = 1) =>
        /\ ret = to_action(battle.acts[1], battle)
        /\ ~raised
        /\ ~HasTree
        /\ it = 0
        /\ last.op = "none"

\* C9, witness: choose_card has returned on a state with one action, with an
\* iteration budget of 0.
C9_Witness ==
    /\ pc = "done"
    /\ Len(battle.acts) = 1
    /\ iterations = 0
    /\ ret # NoRet

RECURSIVE InTree(_, _)
\* Node n is the root or is held by its parent, itself in the tree, under the
\* key of its action.
InTree(T, n) ==
    \/ n = 1
    \/ /\ T[n].parent # 0
       /\ ChildAt(T[T[n].parent].children, T[n].action.key) = n
       /\ InTree(T, T[n].parent)

\* q extends p.
Extends(q, p) == Len(q) >= Len(p) /\ SubSeq(q, 1, Len(p)) = p

\* C10, as claimed: the tree is append-only under step and select: every node
\* of the tree stays in it under the same key, with its results and visits
\* kept or extended; no child entry is removed or replaced.
C10_AppendOnly ==
    [][ \A n \in 1..Len(nodes) :
           InTree(nodes, n) =>
              /\ InTree(nodes', n)
              /\ Extends(nodes'[n].children, nodes[n].children)
              /\ Extends(nodes'[n].results, nodes[n].results)
              /\ nodes'[n].visits >= nodes[n].visits ]_vars

\* A select call of the harness has completed (or raised).
SelectRan == it' = it + 1 /\ last'.op = "select"

\* The children of node n whose mean outcome no other child of n exceeds, a
\* child without results counting as mean 0.
TopMean(T, n) ==
    { j \in 1..Len(T[n].children) :
        \A h \in 1..Len(T[n].children) :
           LET a == T[T[n].children[j].id].results
               b == T[T[n].children[h].id].results
               la == IF a = <<>> THEN 1 ELSE Len(a)
               lb == IF b = <<>> THEN 1 ELSE Len(b)
           IN  Sum(a) * lb >= Sum(b) * la }

\* The first child of n, in the iteration order of n.children, with the
\* highest mean outcome.
GreedyChild(T, n) ==
    LET j == CHOOSE j \in TopMean(T, n) : \A h \in TopMean(T, n) : j <= h
    IN  T[n].children[j].id

\* C11, as claimed: with exploration parameter 0, select at a node that holds a
\* child for every legal action of the state (there is at least one) expands
\* nothing there and descends into the first child, in iteration order, with
\* the highest mean outcome.
C11_GreedyDescent ==
    [][ (SelectRan /\ param = 0) =>
          \A e \in 1..Len(last'.path) :
             LET n    == last'.path[e].node
                 acts == last'.path[e].acts
             IN  (acts # <<>> /\ KeysOf(acts) \subseteq ChildKeys(nodes[n].children)) =>
                    /\ last'.exp # n
                    /\ e < Len(last'.path)
                    /\ last'.path[e + 1].node = GreedyChild(nodes, n) ]_vars

\* A rollout can make no move from s: it has ended, or offers no action.
Terminal(s) == s.ended \/ s.acts = <<>>

\* The tree T after result r was recorded once on node n and on each of its
\* ancestors, and nowhere else.
RecordedUp(T, n, r) ==
    [m \in 1..Len(T) |->
        IF Under(T, n, m)
        THEN [T[m] EXCEPT !.results = Append(@, r), !.visits = @ + 1]
        ELSE T[m]]

\* C12: rollout called on a node with a state that has ended or offers no legal
\* action makes no move and backpropagates the score of that state once: the
\* score is appended to the calling node and to each of its ancestors.
C12_RolloutOnTerminal ==
    [][ (last'.op = "rollout" /\ pc = "tree" /\ Terminal(battle)) =>
          /\ last'.moves = 0
          /\ last'.result = battle.score
          /\ battle' = battle
          /\ nodes' = RecordedUp(nodes, last'.path[1].node, battle.score) ]_vars

\* C12, witness: rollout has run on a node below the root with a state that
\* has ended while still offering actions.
C12_Witness ==
    /\ pc = "called"
    /\ last.op = "rollout"
    /\ battle.ended
    /\ battle.acts # <<>>
    /\ nodes[last.path[1].node].parent # 0
    /\ Len(nodes[1].results) >= 2

\* C13: during choose_card the actual state is never advanced; every step runs
\* on an object of its own that is not the actual state, the snapshot taken
\* in its iteration; get_best is given the actual state.
C13_SnapshotIsolation ==
    [][ /\ battle' = battle
        /\ StepRan =>
              /\ Len(given') = it'
              /\ given'[it'] # Actual
              /\ \A j \in 1..it : given'[j] = given[j] /\ given'[j] # given'[it']
        /\ last'.op = "get_best" =>
              /\ Len(given') = it + 1
              /\ given'[it + 1] = Actual
              /\ \A j \in 1..it : given'[j] = given[j] ]_vars

\* C13, witness: choose_card has returned after three iterations that each
\* expanded the tree, the last one below the root.
C13_Witness ==
    /\ pc = "done"
    /\ it = 3
    /\ Len(given) = 4
    /\ Len(nodes) = 4
    /\ \E n \in 1..Len(nodes) : nodes[n].parent > 1

\* C14: backpropagate(result) called on a node appends that result to results
\* and adds exactly 1 to visits on the node and on each of its ancestors up
\* to the root, and leaves every other node, and the children of every node,
\* as they were.
C14_BackpropagateFrame ==
    [][ (last'.op = "backpropagate" /\ pc = "tree") =>
          LET n == last'.path[1].node
              r == last'.result
          IN  /\ Len(nodes') = Len(nodes)
              /\ \A m \in 1..Len(nodes) :
                    /\ nodes'[m].children = nodes[m].children
                    /\ nodes'[m].parent = nodes[m].parent
                    /\ nodes'[m].action = nodes[m].action
                    /\ IF Under(nodes, n, m)
                       THEN /\ nodes'[m].results = Append(nodes[m].results, r)
                            /\ nodes'[m].visits = nodes[m].visits + 1
                       ELSE /\ nodes'[m].results = nodes[m].results
                            /\ nodes'[m].visits = nodes[m].visits ]_vars

\* C14, witness: backpropagate has run on a node below the root of a tree that
\* holds a node off the path from that node to the root.
C14_Witness ==
    /\ pc = "called"
    /\ last.op = "backpropagate"
    /\ nodes[last.path[1].node].parent # 0
    /\ \E m \in 1..Len(nodes) : ~Under(nodes, last.path[1].node, m)
    /\ nodes[1].visits = 3

\* C15: step on a node, root or not, with a state that offers no legal action
\* does nothing: the call ends at that node, no node is created, no visits or
\* results change, and no state is advanced there.
C15_StepNoActionsNoOp ==
    [][ StepRan =>
          \A e \in 1..Len(last'.path) :
             last'.path[e].acts = <<>> =>
                /\ e = Len(last'.path)
                /\ nodes' = nodes
                /\ last'.exp = 0
                /\ last'.rolled = 0
                /\ last'.moves = 0
                /\ started' = started ]_vars

\* C15, witness: a step call has descended to a child of the root that holds
\* results and met a state without actions there.
C15_Witness ==
    /\ HasTree
    /\ last.op = "step"
    /\ Len(last.path) = 2
    /\ LastSeen.acts = <<>>
    /\ nodes[LastSeen.node].visits >= 1

\* C16: in every state reached by step iterations every node but the root has
\* visits >= 1, so get_best does not return None for a root that has a child.
C16_ChildrenVisited ==
    HasTree =>
       /\ \A n \in 2..Len(nodes) : nodes[n].visits >= 1
       /\ (pc = "done" /\ nodes[1].children # <<>>) =>
             /\ best_action # NoAction
             /\ best_action.key \in ChildKeys(nodes[1].children)

\* C16, witness: get_best has returned an action for a root with two children,
\* one of them visited once.
C16_Witness ==
    /\ HasTree
    /\ pc = "done"
    /\ Len(nodes[1].children) = 2
    /\ best_action # NoAction
    /\ \E n \in 2..Len(nodes) : nodes[n].parent = 1 /\ nodes[n].visits = 1

\* C17: the tree is well formed: every node stored in n.children under key k
\* has n as its parent and an action whose key is k; the root is the only
\* node without a parent and the only one without an action; the parent of a
\* node was created before it, so the parent links reach the root and never
\* form a cycle.
C17_WellFormed ==
    \A n \in 1..Len(nodes) :
       /\ \A j \in 1..Len(nodes[n].children) :
             LET c == nodes[n].children[j].id
             IN  /\ c \in 2..Len(nodes)
                 /\ nodes[c].parent = n
                 /\ nodes[c].action.key = nodes[n].children[j].key
       /\ nodes[n].parent = 0 <=> n = 1
       /\ nodes[n].action = NoAction <=> n = 1
       /\ nodes[n].parent \in 0..(n - 1)
       /\ Under(nodes, n, 1)

\* C17, witness: a tree with a node two levels below the root, next to a
\* second child of the root.
C17_Witness ==
    /\ HasTree
    /\ Len(nodes[1].children) = 2
    /\ \E n \in 1..Len(nodes) : nodes[n].parent > 1

\* The sum of the visits of the children of node n.
ChildVisits(T, n) ==
    Total([m \in 1..Len(T) |-> T[m].visits],
          { T[n].children[j].id : j \in 1..Len(T[n].children) })

\* The visits of tree T add up: the root counts the nodes below it and the
\* visits of its children, every other node counts 1 more than its children.
VisitsAddUp(T) ==
    /\ T[1].visits = Len(T) - 1
    /\ T[1].visits = ChildVisits(T, 1)
    /\ \A n \in 2..Len(T) : T[n].visits = 1 + ChildVisits(T, n)

\* C18: a step call on the root adds at most one node and runs at most one
\* rollout, and runs the rollout exactly when it adds a node (the new node
\* is where the rollout starts); so the root's visits equals the number of
\* nodes below it and the sum of its children's visits, and the visits of any
\* other node is 1 plus the sum of its children's visits.
C18_OneNodeOneRollout ==
    [][ StepRan =>
          /\ Len(nodes') \in { Len(nodes), Len(nodes) + 1 }
          /\ Len(nodes') = Len(nodes) + 1 <=> last'.rolled # 0
          /\ last'.rolled # 0 => last'.rolled = Len(nodes')
          /\ Total(started', 1..Len(nodes')) - Total(started, 1..Len(nodes))
                = Len(nodes') - Len(nodes)
          /\ nodes'[1].visits - nodes[1].visits = Len(nodes') - Len(nodes)
          /\ VisitsAddUp(nodes') ]_vars

\* C18, witness: three step calls have run; the first two each added a node
\* and ran a rollout, the third did neither.
C18_Witness ==
    /\ HasTree
    /\ it = 3
    /\ Len(nodes) = 3
    /\ last.op = "step"
    /\ last.rolled = 0
    /\ nodes[1].visits = 2

\* C19, as claimed: every select call on the root of a reachable tree, with a
\* snapshot of the state at the root (one without legal actions included),
\* completes without error and ends in exactly one expand, one rollout from
\* the node added, and one backpropagation that reaches the root.
C19_SelectCompletes ==
    [][ SelectRan =>
          /\ ~raised'
          /\ last'.exp # 0
          /\ Len(nodes') = Len(nodes) + 1
          /\ last'.rolled = Len(nodes')
          /\ nodes'[1].visits = nodes[1].visits + 1
          /\ nodes'[1].results = Append(nodes[1].results, last'.result) ]_vars

\* C20, as claimed: choose_card returns only after exactly `iterations` step
\* calls followed by one get_best.
C20_IterationsThenGetBest ==
    pc = "done" =>
       /\ it = iterations
       /\ Len(given) = iterations + 1
       /\ last.op = "get_best"

\* How far the call of choose_card has come: a value that is at most
\* iterations + 2.
Progress ==
    IF pc = "idle" THEN 0 ELSE IF pc = "loop" THEN 1 + it ELSE iterations + 2

\* The call of choose_card can take its next step: the tree is constructed, or
\* the step call of the next iteration has an outcome, or get_best has one.
CanGoOn ==
    \/ pc = "idle"
    \/ pc = "loop" /\ it < iterations /\ step(nodes, 1, battle, <<>>) # {}
    \/ pc = "loop" /\ it = iterations /\ get_best(nodes, 1, battle) # {}

\* C20: in a game whose playouts all end within a bounded number of moves,
\* every step call terminates and choose_card terminates: at once, with no
\* step call and no get_best, on a state with exactly one legal action, and
\* otherwise after exactly `iterations` step calls followed by one get_best.
\* Until it has returned the call can always go on (no step call fails to
\* produce its outcome), and each of its steps brings it nearer to the end.
C20_Terminates ==
    /\ [](pc = "done" \/ CanGoOn)
    /\ [][Progress' > Progress]_vars
    /\ [](pc = "loop" => it <= iterations /\ Len(given) = it)
    /\ [](pc = "done" =>
            IF Len(battle.acts) = 1
            THEN it = 0 /\ given = <<>> /\ last.op = "none"
            ELSE /\ it = iterations
                 /\ Len(given) = iterations + 1
                 /\ \A j \in 1..iterations : given[j] # Actual
                 /\ last.op = "get_best")

\* C20, witness: choose_card has returned an action after three step calls,
\* one of which ended at a node where the state offered no action.
C20_Witness ==
    /\ pc = "done"
    /\ iterations = 3
    /\ it = 3
    /\ dead = 1
    /\ last.op = "get_best"
    /\ ret # NoRet

====
